---- MODULE Spec2Model ----
(***************************************************************************)
(* Dimuon invariant-mass pipeline (chapters/01_dimuon_spectrum/src):       *)
(* run.main = analyze.run_analysis ; report.write_report.                  *)
(*                                                                         *)
(* Text is modelled character by character: a line, a cell, a file name is *)
(* a sequence of one-character strings.  Numbers are IEEE-like extended    *)
(* values on an integer grid: a finite grid value, +inf, -inf or NaN.      *)
(***************************************************************************)
EXTENDS Integers, Sequences, FiniteSets, TLC

VARIABLES
    pc,           \* position of the running call
    run,          \* number of the pipeline run in progress (1 or 2)
    dir,          \* the data directory: [exists, top, sub]
    content,      \* the text of the *.csv files: [pre, hdr, sep, body, fill, n]
    csv_file,     \* run_analysis: the path find_csv_file returned
    first_lines,  \* load_table_robust: the sample of raw lines
    header_idx,   \* load_table_robust: detected header line index
    delim,        \* load_table_robust: sniffed delimiter
    df,           \* run_analysis: the table, [columns, rows]
    before,       \* run_analysis: len(df) before dropna
    printed,      \* sequence of diagnostics printed to stdout
    m_calc,       \* run_analysis: computed masses
    residuals,    \* run_analysis: m_calc - m_given
    metrics,      \* run_analysis: the metrics mapping
    written,      \* artifacts written by the run in progress
    out_dir,      \* the output directory: [dirs, files, metrics_json]
    error,        \* the exception that ended the call, or "none"
    prev_metrics  \* metrics.json as the previous run left it

vars == <<pc, run, dir, content, csv_file, first_lines, header_idx,
          delim, df, before, printed, m_calc, residuals, metrics, written,
          out_dir, error, prev_metrics>>

----------------------------------------------------------------------------
(* Characters and text helpers                                             *)

\* re.search(r"[A-Za-z]", ln): the ASCII letters
Letters ==
    {"a","b","c","d","e","f","g","h","i","j","k","l","m","n","o","p","q","r",
     "s","t","u","v","w","x","y","z",
     "A","B","C","D","E","F","G","H","I","J","K","L","M","N","O","P","Q","R",
     "S","T","U","V","W","X","Y","Z"}

\* candidates = [",", ";", "\t", "|"], in the order of the list
candidates == <<",", ";", "\t", "|">>

CandidateSet == {candidates[i] : i \in 1..Len(candidates)}

\* required = ["E1", "px1", "py1", "pz1", "E2", "px2", "py2", "pz2", "M"]
required ==
    << <<"E","1">>, <<"p","x","1">>, <<"p","y","1">>, <<"p","z","1">>,
       <<"E","2">>, <<"p","x","2">>, <<"p","y","2">>, <<"p","z","2">>,
       <<"M">> >>

\* k in ln, for strings: k occurs as a substring of ln
Contains(ln, k) ==
    \E i \in 1..(Len(ln) - Len(k) + 1) : SubSeq(ln, i, i + Len(k) - 1) = k

\* str.count(c) for a single character c
CountChar(s, c) == Cardinality({i \in 1..Len(s) : s[i] = c})

\* "\n".join(lines)
RECURSIVE JoinLines(_)
JoinLines(lines) ==
    IF Len(lines) = 0 THEN <<>>
    ELSE IF Len(lines) = 1 THEN lines[1]
    ELSE LET h == Len(lines) \div 2
         IN  JoinLines(SubSeq(lines, 1, h)) \o <<"\n">>
                \o JoinLines(SubSeq(lines, h + 1, Len(lines)))

\* lines[a:b] with Python's slice clamping (0-based a, exclusive b)
Slice(lines, a, b) ==
    LET lo == IF a > Len(lines) THEN Len(lines) ELSE a
        hi == IF b > Len(lines) THEN Len(lines) ELSE b
    IN  IF hi <= lo THEN <<>> ELSE SubSeq(lines, lo + 1, hi)

----------------------------------------------------------------------------
(* Format sniffer: _detect_header_line and _sniff_delimiter                *)

HitThreshold == 5

\* hit = sum(1 for k in required if k in ln)
Hits(ln) == Cardinality({j \in 1..Len(required) : Contains(ln, required[j])})

\* any(d in ln for d in [",", ";", "\t", "|"]) and re.search(r"[A-Za-z]", ln)
TableLike(ln) ==
    /\ \E i \in 1..Len(ln) : ln[i] \in CandidateSet
    /\ \E i \in 1..Len(ln) : ln[i] \in Letters

\* smallest member of a non-empty set of naturals
MinOf(S) == CHOOSE x \in S : \A y \in S : x <= y

\* _detect_header_line as a single pass: the first line passing either test
detect_header_line_onepass(lines) ==
    LET ok == {i \in 1..Len(lines) :
                  Hits(lines[i]) >= HitThreshold \/ TableLike(lines[i])}
    IN  IF ok # {} THEN MinOf(ok) - 1 ELSE 0

\* _detect_header_line(lines): 0-based index of the header line
detect_header_line(lines) ==
    LET strong == {i \in 1..Len(lines) : Hits(lines[i]) >= HitThreshold}
        tabley == {i \in 1..Len(lines) : TableLike(lines[i])}
    IN  IF strong # {} THEN MinOf(strong) - 1
        ELSE IF tabley # {} THEN MinOf(tabley) - 1
        ELSE 0

\* counts = {c: sample_text.count(c) for c in candidates}
counts(sample_text) == [i \in 1..Len(candidates) |-> CountChar(sample_text, candidates[i])]

\* best = max(counts, key=counts.get): the first key with the largest count
BestCandidate(sample_text) ==
    LET cnt == counts(sample_text)
        top == {i \in 1..Len(candidates) : \A j \in 1..Len(candidates) : cnt[j] <= cnt[i]}
    IN  MinOf(top)

\* csv.Sniffer().sniff(sample_text, delimiters=",;\t|").delimiter, or "fail"
\* when it raises: restricted to the candidate delimiters, the sniffer only
\* ever returns a candidate that occurs in the sample.
Sniffer_sniff(sample_text) ==
    IF \A i \in 1..Len(candidates) : CountChar(sample_text, candidates[i]) = 0
    THEN "fail"
    ELSE candidates[BestCandidate(sample_text)]

\* _sniff_delimiter(sample_text)
sniff_delimiter(sample_text) ==
    LET best == BestCandidate(sample_text)
    IN  IF counts(sample_text)[best] > 0 THEN candidates[best]
        ELSE IF Sniffer_sniff(sample_text) # "fail" THEN Sniffer_sniff(sample_text)
        ELSE ","

SniffWindow == 20

\* the sniffing sample taken as the whole of first_lines
sample_for_sniff_all(lines, hidx) == JoinLines(lines)

\* sample_for_sniff = "\n".join(first_lines[header_idx:header_idx + 20])
sample_for_sniff(lines, hidx) == JoinLines(Slice(lines, hidx, hidx + SniffWindow))

----------------------------------------------------------------------------
(* Numbers: float values on an integer grid, with the IEEE specials        *)

Fin(n) == [k |-> "fin", v |-> n]
PInf == [k |-> "pinf", v |-> 0]
NInf == [k |-> "ninf", v |-> 0]
NaN == [k |-> "nan", v |-> 0]

IsFin(a) == a.k = "fin"

\* a + b
XAdd(a, b) ==
    IF a.k = "nan" \/ b.k = "nan" THEN NaN
    ELSE IF IsFin(a) /\ IsFin(b) THEN Fin(a.v + b.v)
    ELSE IF IsFin(a) THEN b
    ELSE IF IsFin(b) THEN a
    ELSE IF a.k = b.k THEN a
    ELSE NaN

\* -a
XNeg(a) ==
    IF IsFin(a) THEN Fin(0 - a.v)
    ELSE IF a.k = "pinf" THEN NInf
    ELSE IF a.k = "ninf" THEN PInf
    ELSE NaN

\* a - b
XSub(a, b) == XAdd(a, XNeg(b))

\* a**2
XSq(a) ==
    IF IsFin(a) THEN Fin(a.v * a.v)
    ELSE IF a.k = "nan" THEN NaN
    ELSE PInf

\* a < b as floats compare: False when either is NaN
XLess(a, b) ==
    /\ a.k # "nan"
    /\ b.k # "nan"
    /\ \/ IsFin(a) /\ IsFin(b) /\ a.v < b.v
       \/ a.k = "ninf" /\ b.k # "ninf"
       \/ b.k = "pinf" /\ a.k # "pinf"

\* the largest r with r*r <= n: the square root rounded to the grid
ISqrt(n) == CHOOSE r \in 0..n : r * r <= n /\ n < (r + 1) * (r + 1)

\* np.maximum(a, 0.0): NaN propagates
np_maximum0(a) ==
    IF a.k = "nan" THEN NaN
    ELSE IF XLess(a, Fin(0)) THEN Fin(0)
    ELSE a

\* np.sqrt(a): NaN (with a warning, no exception) for a negative argument
np_sqrt(a) ==
    IF IsFin(a) THEN (IF a.v < 0 THEN NaN ELSE Fin(ISqrt(a.v)))
    ELSE IF a.k = "pinf" THEN PInf
    ELSE NaN

----------------------------------------------------------------------------
(* Mass reconstructor: invariant_mass                                      *)

\* m2 = E_sum**2 - px_sum**2 - py_sum**2 - pz_sum**2, for one row
\* (E, px, py, pz are the row's pairs, summed along axis 1)
m2_row(E, px, py, pz) ==
    LET E_sum == XAdd(E[1], E[2])
        px_sum == XAdd(px[1], px[2])
        py_sum == XAdd(py[1], py[2])
        pz_sum == XAdd(pz[1], pz[2])
    IN  XSub(XSub(XSub(XSq(E_sum), XSq(px_sum)), XSq(py_sum)), XSq(pz_sum))

\* mass_row without the clamp: np.sqrt(m2)
mass_row_noclamp(E, px, py, pz) == np_sqrt(m2_row(E, px, py, pz))

\* np.sqrt(np.maximum(m2, 0.0)), for one row
mass_row(E, px, py, pz) == np_sqrt(np_maximum0(m2_row(E, px, py, pz)))

\* invariant_mass(E, px, py, pz): arrays of shape (N, 2) to an array of N
invariant_mass(E, px, py, pz) ==
    [i \in 1..Len(E) |-> mass_row(E[i], px[i], py[i], pz[i])]

----------------------------------------------------------------------------
(* Table loader: the part of pd.read_csv(sep=delim, header=0,              *)
(* skiprows=header_idx, engine="python", on_bad_lines="skip") the pipeline *)
(* relies on, for unquoted text                                            *)

Whitespace == {" ", "\t", "\n", "\r"}

\* str.strip()
RECURSIVE Strip(_)
Strip(s) ==
    IF Len(s) = 0 THEN s
    ELSE IF s[1] \in Whitespace THEN Strip(Tail(s))
    ELSE IF s[Len(s)] \in Whitespace THEN Strip(SubSeq(s, 1, Len(s) - 1))
    ELSE s

\* the fields of one line: an empty line has no field
SplitFields(s, d) ==
    LET D == {j \in 1..Len(s) : s[j] = d}
        pos(k) == IF k = 0 THEN 0
                  ELSE IF k > Cardinality(D) THEN Len(s) + 1
                  ELSE CHOOSE j \in D : Cardinality({i \in D : i <= j}) = k
    IN  [k \in 1..(Cardinality(D) + 1) |-> SubSeq(s, pos(k - 1) + 1, pos(k) - 1)]

Fields(ln, d) == IF Len(ln) = 0 THEN <<>> ELSE SplitFields(ln, d)

\* skip_blank_lines: a row is kept when it has several fields or one non-blank field
IsBlankRow(fs) == Len(fs) = 0 \/ (Len(fs) = 1 /\ Strip(fs[1]) = <<>>)

\* sub-sequence of s at the positions lo..hi that are in keep, in order
RECURSIVE SelectRange(_, _, _, _)
SelectRange(s, keep, lo, hi) ==
    IF lo > hi THEN <<>>
    ELSE IF lo = hi THEN (IF lo \in keep THEN <<s[lo]>> ELSE <<>>)
    ELSE LET mid == (lo + hi) \div 2
         IN  SelectRange(s, keep, lo, mid) \o SelectRange(s, keep, mid + 1, hi)

\* sub-sequence of s at the positions from i on that are in keep, in order
SelectIdx(s, keep, i) == SelectRange(s, keep, i, Len(s))

DropBlank(rows) == SelectIdx(rows, {r \in 1..Len(rows) : ~IsBlankRow(rows[r])}, 1)

\* decimal digits of a natural number
RECURSIVE IntToChars(_)
IntToChars(n) ==
    LET d == <<"0","1","2","3","4","5","6","7","8","9">>[(n % 10) + 1]
    IN  IF n < 10 THEN <<d>> ELSE IntToChars(n \div 10) \o <<d>>

\* the name pandas gives column i (0-based) whose header cell is empty
Unnamed(i) == <<"U","n","n","a","m","e","d",":"," ">> \o IntToChars(i)

\* the cell pandas reads as a missing value (the empty field)
IsNA(cell) == cell = <<>>

\* one data row laid on ncols columns after `shift` implicit index fields:
\* missing trailing fields are NA
RowCells(fs, shift, ncols) ==
    [j \in 1..ncols |-> IF shift + j <= Len(fs) THEN fs[shift + j] ELSE <<>>]

\* on_bad_lines="skip": a row with too many fields is dropped
KeepRows(rows, shift, ncols) ==
    LET good == SelectIdx(rows, {r \in 1..Len(rows) : Len(rows[r]) <= shift + ncols}, 1)
    IN  [r \in 1..Len(good) |-> RowCells(good[r], shift, ncols)]

\* pd.read_csv(...): err = "EmptyDataError" when no header line is left, else
\* the table [columns, rows] with the header's names and the rows' raw cells.
\* A first data row longer than the header makes its leading fields the index.
read_csv(lines, sep, skiprows) ==
    LET rest == Slice(lines, skiprows, Len(lines))
        kept == DropBlank([i \in 1..Len(rest) |-> Fields(rest[i], sep)])
    IN  IF Len(kept) = 0 THEN [err |-> "EmptyDataError", columns |-> <<>>, rows |-> <<>>]
        ELSE LET hdr == kept[1]
                 ncols == Len(hdr)
                 data == Tail(kept)
                 shift == IF Len(data) > 0 /\ Len(data[1]) > ncols
                          THEN Len(data[1]) - ncols ELSE 0
             IN  [err |-> "none",
                  columns |-> [j \in 1..ncols |->
                                  IF hdr[j] = <<>> THEN Unnamed(j - 1) ELSE hdr[j]],
                  rows |-> KeepRows(data, shift, ncols)]

\* df.columns = [c.strip() for c in df.columns]
StripColumns(t) == [t EXCEPT !.columns = [j \in 1..Len(t.columns) |-> Strip(t.columns[j])]]

----------------------------------------------------------------------------
(* Numeric coercer                                                         *)

Digits == {"0","1","2","3","4","5","6","7","8","9"}

DigitVal(c) == CHOOSE n \in 0..9 : <<"0","1","2","3","4","5","6","7","8","9">>[n + 1] = c

RECURSIVE Decimal(_)
Decimal(s) == IF Len(s) = 0 THEN 0
              ELSE 10 * Decimal(SubSeq(s, 1, Len(s) - 1)) + DigitVal(s[Len(s)])

IsDigits(s) == Len(s) > 0 /\ \A i \in 1..Len(s) : s[i] \in Digits

\* pd.to_numeric(cell, errors="coerce") on grid values: NaN for text that is
\* no number and for the missing value
to_numeric(cell) ==
    LET s == Strip(cell)
    IN  IF IsDigits(s) THEN Fin(Decimal(s))
        ELSE IF Len(s) > 1 /\ s[1] = "-" /\ IsDigits(Tail(s)) THEN Fin(0 - Decimal(Tail(s)))
        ELSE IF s = <<"i","n","f">> THEN PInf
        ELSE IF s = <<"-","i","n","f">> THEN NInf
        ELSE NaN

\* 1-based position of column name c in the table, 0 when absent
ColIndex(t, c) ==
    IF \E j \in 1..Len(t.columns) : t.columns[j] = c
    THEN MinOf({j \in 1..Len(t.columns) : t.columns[j] = c})
    ELSE 0

\* df.dropna(axis=1, how="all"): drop the columns with no value at all
dropna_columns(t) ==
    LET keep == {j \in 1..Len(t.columns) :
                    \E r \in 1..Len(t.rows) : ~IsNA(t.rows[r][j])}
    IN  [err |-> t.err,
         columns |-> SelectIdx(t.columns, keep, 1),
         rows |-> [r \in 1..Len(t.rows) |-> SelectIdx(t.rows[r], keep, 1)]]

\* required_cols, as column names
required_cols == required

\* only the first missing column
missing_cols_first(t) ==
    LET absent == {j \in 1..Len(required_cols) : ColIndex(t, required_cols[j]) = 0}
    IN  IF absent = {} THEN <<>> ELSE <<required_cols[MinOf(absent)]>>

\* missing = [c for c in required_cols if c not in df.columns]
missing_cols(t) ==
    SelectIdx(required_cols, {j \in 1..Len(required_cols) : ColIndex(t, required_cols[j]) = 0}, 1)

\* for c in required_cols: df[c] = pd.to_numeric(df[c], errors="coerce")
coerce(t) ==
    LET req == {ColIndex(t, required_cols[j]) : j \in 1..Len(required_cols)}
    IN  [t EXCEPT !.rows = [r \in 1..Len(t.rows) |->
            [j \in 1..Len(t.columns) |->
                IF j \in req THEN to_numeric(t.rows[r][j]) ELSE t.rows[r][j]]]]

\* df.dropna(subset=required_cols): drop the rows with NaN in a required column
dropna_rows(t) ==
    LET req == {ColIndex(t, required_cols[j]) : j \in 1..Len(required_cols)}
        keep == {r \in 1..Len(t.rows) : \A j \in req : t.rows[r][j].k # "nan"}
    IN  [t EXCEPT !.rows = SelectIdx(t.rows, keep, 1)]

\* df[[a, b]].values: per row, the pair of the two columns' values
Pairs(t, a, b) ==
    LET ia == ColIndex(t, a)
        ib == ColIndex(t, b)
    IN  [r \in 1..Len(t.rows) |-> <<t.rows[r][ia], t.rows[r][ib]>>]

\* df[c].values
Column(t, c) == LET ic == ColIndex(t, c) IN [r \in 1..Len(t.rows) |-> t.rows[r][ic]]

----------------------------------------------------------------------------
(* Aggregates: np.mean, np.std, np.min, np.max over a non-empty array      *)

RECURSIVE XSum(_)
XSum(a) ==
    IF Len(a) = 0 THEN Fin(0)
    ELSE IF Len(a) = 1 THEN a[1]
    ELSE LET h == Len(a) \div 2
         IN  XAdd(XSum(SubSeq(a, 1, h)), XSum(SubSeq(a, h + 1, Len(a))))

RECURSIVE IntSum(_)
IntSum(a) ==
    IF Len(a) = 0 THEN 0
    ELSE IF Len(a) = 1 THEN a[1]
    ELSE LET h == Len(a) \div 2
         IN  IntSum(SubSeq(a, 1, h)) + IntSum(SubSeq(a, h + 1, Len(a)))

\* np.mean(a): the sum divided by the count, rounded to the grid
np_mean(a) ==
    LET t == XSum(a) IN IF IsFin(t) THEN Fin(t.v \div Len(a)) ELSE t

\* resolution of the standard deviation: it is held in units of 1/StdRes of
\* the grid, as a float resolves values far below the data's spacing
StdRes == 100

\* the root mean square of a, sqrt(mean(a**2)), in the same units
np_rms(a) ==
    IF \E i \in 1..Len(a) : ~IsFin(a[i]) THEN NaN
    ELSE Fin(ISqrt((StdRes * StdRes * IntSum([i \in 1..Len(a) |-> a[i].v * a[i].v]))
                   \div Len(a)))

\* np.std(a) = sqrt(mean(abs(a - a.mean())**2)), population form (ddof=0).
\* A non-finite element makes a - a.mean() NaN somewhere, so the result NaN.
\* For finite data the deviations are taken from the exact mean:
\* n*(a_i - mean) = n*a_i - sum(a).
np_std(a) ==
    IF \E i \in 1..Len(a) : ~IsFin(a[i]) THEN NaN
    ELSE LET n == Len(a)
             tot == IntSum([i \in 1..n |-> a[i].v])
             sq == IntSum([i \in 1..n |-> (n * a[i].v - tot) * (n * a[i].v - tot)])
         IN  Fin(ISqrt((StdRes * StdRes * sq) \div (n * n * n)))

\* np.min(a): NaN when an element is NaN
np_min(a) ==
    IF \E i \in 1..Len(a) : a[i].k = "nan" THEN NaN
    ELSE a[CHOOSE i \in 1..Len(a) : \A j \in 1..Len(a) : ~XLess(a[j], a[i])]

\* np.max(a): NaN when an element is NaN
np_max(a) ==
    IF \E i \in 1..Len(a) : a[i].k = "nan" THEN NaN
    ELSE a[CHOOSE i \in 1..Len(a) : \A j \in 1..Len(a) : ~XLess(a[i], a[j])]

\* plt.hist(x, bins=200) with no range given: the bin range is taken from the
\* data and must be finite, else numpy raises ValueError
hist_autorange_raises(x) ==
    \/ \E i \in 1..Len(x) : x[i].k \in {"pinf", "ninf"}
    \/ \A i \in 1..Len(x) : x[i].k = "nan"

----------------------------------------------------------------------------
(* File locator: find_csv_file                                             *)

\* the characters of file names, in code-point order
CharOrder ==
    <<".", "0","1","2","3","4","5","6","7","8","9",
      "A","B","C","D","E","F","G","H","I","J","K","L","M","N","O","P","Q","R",
      "S","T","U","V","W","X","Y","Z", "_",
      "a","b","c","d","e","f","g","h","i","j","k","l","m","n","o","p","q","r",
      "s","t","u","v","w","x","y","z">>

Ord(c) == CHOOSE i \in 1..Len(CharOrder) : CharOrder[i] = c

\* a < b for strings
RECURSIVE StrLess(_, _)
StrLess(a, b) ==
    IF Len(b) = 0 THEN FALSE
    ELSE IF Len(a) = 0 THEN TRUE
    ELSE IF a[1] = b[1] THEN StrLess(Tail(a), Tail(b))
    ELSE Ord(a[1]) < Ord(b[1])

\* p < q for paths: pathlib compares the sequences of path components
RECURSIVE PathLess(_, _)
PathLess(p, q) ==
    IF Len(q) = 0 THEN FALSE
    ELSE IF Len(p) = 0 THEN TRUE
    ELSE IF p[1] = q[1] THEN PathLess(Tail(p), Tail(q))
    ELSE StrLess(p[1], q[1])

\* fnmatch of a name against "*.csv"
MatchesCsv(name) ==
    Len(name) >= 4 /\ SubSeq(name, Len(name) - 3, Len(name)) = <<".","c","s","v">>

\* data_dir.glob("*.csv"): paths relative to data_dir
glob_top(d) == {<<n>> : n \in {m \in d.top : MatchesCsv(m)}}

\* data_dir.glob("*/*.csv")
glob_sub(d) == {p \in d.sub : MatchesCsv(p[2])}

\* sorted(csv_files)[0]
sorted_first(paths) == CHOOSE p \in paths : \A q \in paths : ~PathLess(q, p)

\* data_dir.rglob("*"): every entry below data_dir, relative to it
rglob_all(d) == {<<n>> : n \in d.top} \cup {<<p[1]>> : p \in d.sub} \cup d.sub

NoError == [type |-> "none", what |-> "", detail |-> {}]

\* find_csv_file searching both levels at once
find_csv_file_both(d) ==
    IF ~d.exists
    THEN [error |-> [type |-> "FileNotFoundError", what |-> "Data directory does not exist",
                     detail |-> {}],
          path |-> <<>>]
    ELSE LET csv_files == glob_top(d) \cup glob_sub(d)
         IN  IF csv_files = {}
             THEN [error |-> [type |-> "FileNotFoundError", what |-> "No CSV files found",
                              detail |-> rglob_all(d)],
                   path |-> <<>>]
             ELSE [error |-> NoError, path |-> sorted_first(csv_files)]

\* find_csv_file(data_dir): [error, path]
find_csv_file(d) ==
    IF ~d.exists
    THEN [error |-> [type |-> "FileNotFoundError", what |-> "Data directory does not exist",
                     detail |-> {}],
          path |-> <<>>]
    ELSE LET csv_files == IF glob_top(d) # {} THEN glob_top(d) ELSE glob_sub(d)
         IN  IF csv_files = {}
             THEN [error |-> [type |-> "FileNotFoundError", what |-> "No CSV files found",
                              detail |-> rglob_all(d)],
                   path |-> <<>>]
             ELSE [error |-> NoError, path |-> sorted_first(csv_files)]

----------------------------------------------------------------------------
(* Input texts the model runs the program on                               *)

\* header rows, as cells
H_full ==
    <<<<"E","1">>, <<"p","x","1">>, <<"p","y","1">>, <<"p","z","1">>,
      <<"E","2">>, <<"p","x","2">>, <<"p","y","2">>, <<"p","z","2">>,
      <<"M">>, <<"e","x","t","r","a">>>>

H_nopz2 ==
    <<<<"E","1">>, <<"p","x","1">>, <<"p","y","1">>, <<"p","z","1">>,
      <<"E","2">>, <<"p","x","2">>, <<"p","y","2">>, <<"M">>>>

H_spaced ==
    <<<<" ","E","1">>, <<"p","x","1"," ">>, <<" ","p","y","1"," ">>,
      <<"p","z","1">>, <<"E","2">>, <<"p","x","2">>, <<"p","y","2">>,
      <<"p","z","2">>, <<" ","M">>>>

H_other ==
    <<<<"a">>, <<"b">>>>

\* data rows, as cells, in the order E1 px1 py1 pz1 E2 px2 py2 pz2 M
R_exact ==
    <<<<"3">>, <<"0">>, <<"0">>, <<"0">>, <<"2">>, <<"0">>, <<"0">>,
      <<"0">>, <<"5">>>>

R_off ==
    <<<<"3">>, <<"0">>, <<"0">>, <<"0">>, <<"2">>, <<"0">>, <<"0">>,
      <<"0">>, <<"4">>>>

R_clamp ==
    <<<<"1">>, <<"1","0">>, <<"0">>, <<"0">>, <<"1">>, <<"1","0">>,
      <<"0">>, <<"0">>, <<"0">>>>

R_text ==
    <<<<"x">>, <<"0">>, <<"0">>, <<"0">>, <<"2">>, <<"0">>, <<"0">>,
      <<"0">>, <<"5">>>>

R_inf ==
    <<<<"i","n","f">>, <<"0">>, <<"0">>, <<"0">>, <<"2">>, <<"0">>,
      <<"0">>, <<"0">>, <<"5">>>>

R_nan ==
    <<<<"i","n","f">>, <<"i","n","f">>, <<"0">>, <<"0">>, <<"2">>, <<"0">>, <<"0">>,
      <<"0">>, <<"5">>>>

R_short ==
    <<<<"3">>, <<"0">>>>

R_extra ==
    <<<<"3">>, <<"0">>, <<"0">>, <<"0">>, <<"2">>, <<"0">>, <<"0">>, <<"0">>, <<"5">>,
      <<"7">>>>

R_long ==
    <<<<"3">>, <<"0">>, <<"0">>, <<"0">>, <<"2">>, <<"0">>, <<"0">>,
      <<"0">>, <<"5">>, <<"7">>, <<"8">>>>

\* an empty line
BlankRow == <<>>

\* raw lines
L_hdr ==
    <<"E", "1", ",", "p", "x", "1", ",", "p", "y", "1", ",", "p", "z", "1",
      ",", "E", "2", ",", "p", "x", "2", ",", "p", "y", "2", ",", "p", "z",
      "2", ",", "M", ",", "e", "x", "t", "r", "a">>

L_five ==
    <<"E", "1", ";", "p", "x", "1", ";", "p", "y", "1", ";", "p", "z", "1",
      ";", "E", "2">>

L_four ==
    <<"E", "1", "|", "p", "x", "1", "|", "p", "y", "1", "|", "p", "z", "1">>

L_pre ==
    <<"#", " ", "R", "u", "n", " ", "2", "0", "1", "1">>

L_num ==
    <<"1", ",", "2", ";", "3", ";", "4">>

L_tab ==
    <<"a", "\t", "b">>

L_tie ==
    <<"x", ",", "y", ";", "z">>

L_empty == <<>>

\* sep.join(cells)
RECURSIVE RenderLine(_, _)
RenderLine(cells, sep) ==
    IF Len(cells) = 0 THEN <<>>
    ELSE IF Len(cells) = 1 THEN cells[1]
    ELSE LET h == Len(cells) \div 2
         IN  RenderLine(SubSeq(cells, 1, h), sep) \o <<sep>>
                \o RenderLine(SubSeq(cells, h + 1, Len(cells)), sep)

\* the preamble, header and body lines of a file
HeadLines(c) ==
    c.pre \o <<RenderLine(c.hdr, c.sep)>> \o
    [i \in 1..Len(c.body) |-> RenderLine(c.body[i], c.sep)]

\* the lines of a file: its head, then the fill row up to n lines
FileLines(c) ==
    LET head == HeadLines(c)
        filler == RenderLine(c.fill, c.sep)
    IN  [i \in 1..c.n |-> IF i <= Len(head) THEN head[i] ELSE filler]

----------------------------------------------------------------------------
(* The run: run.main = run_analysis(cfg) ; write_report(cfg, results)      *)

SampleLines == 80

EmptyTable == [err |-> "none", columns |-> <<>>, rows |-> <<>>]

NoMetrics ==
    [events |-> 0, residual_mean |-> NaN, residual_rms |-> NaN, csv_file |-> <<>>,
     min_mass_calc |-> NaN, max_mass_calc |-> NaN]

Figures == <<"mass_spectrum.png", "mass_spectrum_log.png", "mass_residuals.png">>

Artifacts == {"metrics.json", "results.md"} \cup {Figures[i] : i \in 1..Len(Figures)}

\* the locals of a call that has not started
IdleLocals ==
    /\ csv_file = <<>>
    /\ first_lines = <<>>
    /\ header_idx = 0
    /\ delim = ","
    /\ df = EmptyTable
    /\ before = 0
    /\ printed = <<>>
    /\ m_calc = <<>>
    /\ residuals = <<>>
    /\ metrics = NoMetrics
    /\ written = {}
    /\ error = NoError

\* an exception leaves the call: the run is over
Raise(e) == pc' = "aborted" /\ error' = e

\* run_analysis, lines 128-138: make the output directories, locate the file
Locate ==
    /\ pc = "main"
    /\ out_dir' = [out_dir EXCEPT !.dirs = TRUE]
    /\ LET r == find_csv_file(dir)
       IN  IF r.error.type # "none"
           THEN /\ Raise(r.error)
                /\ UNCHANGED <<csv_file, printed>>
           ELSE /\ csv_file' = r.path
                /\ printed' = Append(printed, [msg |-> "Loading data from", arg |-> r.path])
                /\ pc' = "load"
                /\ UNCHANGED error
    /\ UNCHANGED <<run, dir, content, first_lines, header_idx, delim, df, before,
                   m_calc, residuals, metrics, written, prev_metrics>>

\* [next(f) for _ in range(80)]: next(f) raises StopIteration at the end of
\* the file, and nothing catches it
read_first_lines(lines) ==
    IF Len(lines) < SampleLines
    THEN [error |-> [type |-> "StopIteration", what |-> "", detail |-> {}], lines |-> <<>>]
    ELSE [error |-> NoError, lines |-> SubSeq(lines, 1, SampleLines)]

\* load_table_robust, lines 96-99: read the sample of raw lines
ReadSample ==
    /\ pc = "load"
    /\ LET r == read_first_lines(FileLines(content))
       IN  IF r.error.type # "none"
           THEN Raise(r.error) /\ UNCHANGED first_lines
           ELSE first_lines' = r.lines /\ pc' = "sniff" /\ UNCHANGED error
    /\ UNCHANGED <<run, dir, content, csv_file, header_idx, delim, df, before, printed,
                   m_calc, residuals, metrics, written, out_dir, prev_metrics>>

\* load_table_robust, lines 101-103: detect the header line, sniff the delimiter
Sniff ==
    /\ pc = "sniff"
    /\ LET hidx == detect_header_line(first_lines)
       IN  /\ header_idx' = hidx
           /\ delim' = sniff_delimiter(sample_for_sniff(first_lines, hidx))
    /\ pc' = "parse"
    /\ UNCHANGED <<run, dir, content, csv_file, first_lines, df, before, printed,
                   m_calc, residuals, metrics, written, out_dir, error, prev_metrics>>

\* load_table_robust, lines 106-124: parse the whole file, trim the column names
Parse ==
    /\ pc = "parse"
    /\ LET t == read_csv(FileLines(content), delim, header_idx)
       IN  IF t.err # "none"
           THEN /\ Raise([type |-> "RuntimeError", what |-> "Failed to parse",
                          detail |-> [delim |-> delim, header_idx |-> header_idx]])
                /\ UNCHANGED df
           ELSE /\ df' = StripColumns(t)
                /\ pc' = "check"
                /\ UNCHANGED error
    /\ UNCHANGED <<run, dir, content, csv_file, first_lines, header_idx, delim, before,
                   printed, m_calc, residuals, metrics, written, out_dir, prev_metrics>>

\* run_analysis, lines 143-153: drop the empty columns, check the required ones
CheckColumns ==
    /\ pc = "check"
    /\ LET kept == dropna_columns(df)
           missing == missing_cols(kept)
       IN  /\ df' = kept
           /\ IF Len(missing) > 0
              THEN Raise([type |-> "ValueError", what |-> "Missing required columns",
                          detail |-> [missing |-> missing, found |-> kept.columns]])
              ELSE pc' = "coerce" /\ UNCHANGED error
    /\ UNCHANGED <<run, dir, content, csv_file, first_lines, header_idx, delim, before,
                   printed, m_calc, residuals, metrics, written, out_dir, prev_metrics>>

\* run_analysis, lines 156-164: coerce to numbers, drop the invalid rows
Coerce ==
    /\ pc = "coerce"
    /\ before' = Len(df.rows)
    /\ LET kept == dropna_rows(coerce(df))
           after == Len(kept.rows)
       IN  /\ df' = kept
           /\ IF after = 0
              THEN /\ Raise([type |-> "ValueError", what |-> "no valid rows remained",
                             detail |-> {}])
                   /\ UNCHANGED printed
              ELSE /\ pc' = "reconstruct"
                   /\ UNCHANGED error
                   /\ printed' = IF after < Len(df.rows)
                                 THEN Append(printed, [msg |-> "Dropped rows",
                                                       arg |-> Len(df.rows) - after])
                                 ELSE printed
    /\ UNCHANGED <<run, dir, content, csv_file, first_lines, header_idx, delim,
                   m_calc, residuals, metrics, written, out_dir, prev_metrics>>

\* residuals = m_calc - m_given
subtract(a, b) == [i \in 1..Len(a) |-> XSub(a[i], b[i])]

\* run_analysis, lines 169-176: masses and residuals
Reconstruct ==
    /\ pc = "reconstruct"
    /\ LET E == Pairs(df, required_cols[1], required_cols[5])
           px == Pairs(df, required_cols[2], required_cols[6])
           py == Pairs(df, required_cols[3], required_cols[7])
           pz == Pairs(df, required_cols[4], required_cols[8])
           m_given == Column(df, required_cols[9])
           masses == invariant_mass(E, px, py, pz)
       IN  /\ m_calc' = masses
           /\ residuals' = subtract(masses, m_given)
    /\ pc' = "fig1"
    /\ UNCHANGED <<run, dir, content, csv_file, first_lines, header_idx, delim, df, before,
                   printed, metrics, written, out_dir, error, prev_metrics>>

\* plt.savefig(fig_dir / name)
SaveFigure(name) ==
    /\ written' = written \cup {name}
    /\ out_dir' = [out_dir EXCEPT !.files = @ \cup {name}]

\* run_analysis, lines 185-192: the spectrum over the configured range
PlotSpectrum ==
    /\ pc = "fig1"
    /\ SaveFigure(Figures[1])
    /\ pc' = "fig2"
    /\ UNCHANGED <<run, dir, content, csv_file, first_lines, header_idx, delim, df, before,
                   printed, m_calc, residuals, metrics, error, prev_metrics>>

\* run_analysis, lines 195-202: the spectrum on a log scale
PlotSpectrumLog ==
    /\ pc = "fig2"
    /\ SaveFigure(Figures[2])
    /\ pc' = "fig3"
    /\ UNCHANGED <<run, dir, content, csv_file, first_lines, header_idx, delim, df, before,
                   printed, m_calc, residuals, metrics, error, prev_metrics>>

\* run_analysis, lines 205-212: the residuals, binned over their own range
PlotResiduals ==
    /\ pc = "fig3"
    /\ IF hist_autorange_raises(residuals)
       THEN /\ Raise([type |-> "ValueError", what |-> "range is not finite", detail |-> {}])
            /\ UNCHANGED <<written, out_dir>>
       ELSE /\ SaveFigure(Figures[3])
            /\ pc' = "metrics"
            /\ UNCHANGED error
    /\ UNCHANGED <<run, dir, content, csv_file, first_lines, header_idx, delim, df, before,
                   printed, m_calc, residuals, metrics, prev_metrics>>

\* metrics merged into the ones already in metrics.json
compute_metrics_merged(t, res, masses, path) ==
    [events |-> out_dir.metrics_json.events + Len(t.rows),
     residual_mean |-> np_mean(res),
     residual_rms |-> np_std(res),
     csv_file |-> path,
     min_mass_calc |-> np_min(masses),
     max_mass_calc |-> np_max(masses)]

\* the metrics mapping of lines 217-224
compute_metrics(t, res, masses, path) ==
    [events |-> Len(t.rows),
     residual_mean |-> np_mean(res),
     residual_rms |-> np_std(res),
     csv_file |-> path,
     min_mass_calc |-> np_min(masses),
     max_mass_calc |-> np_max(masses)]

\* run_analysis, lines 217-237: compute the metrics, write metrics.json
WriteMetrics ==
    /\ pc = "metrics"
    /\ LET m == compute_metrics(df, residuals, m_calc, csv_file)
       IN  /\ metrics' = m
           /\ out_dir' = [out_dir EXCEPT !.files = @ \cup {"metrics.json"},
                                         !.metrics_json = m]
    /\ written' = written \cup {"metrics.json"}
    /\ pc' = "report"
    /\ UNCHANGED <<run, dir, content, csv_file, first_lines, header_idx, delim, df, before,
                   printed, m_calc, residuals, error, prev_metrics>>

\* report.write_report: write results.md
WriteReport ==
    /\ pc = "report"
    /\ written' = written \cup {"results.md"}
    /\ out_dir' = [out_dir EXCEPT !.files = @ \cup {"results.md"}]
    /\ pc' = "done"
    /\ UNCHANGED <<run, dir, content, csv_file, first_lines, header_idx, delim, df, before,
                   printed, m_calc, residuals, metrics, error, prev_metrics>>

\* number of runs made in sequence on the same directories
Runs == 2

\* the analyst runs the pipeline again: same configuration, same input
\* directory, the output directory as the previous run left it
RunAgain ==
    /\ pc \in {"done", "aborted"}
    /\ run < Runs
    /\ run' = run + 1
    /\ pc' = "main"
    /\ prev_metrics' = out_dir.metrics_json
    /\ csv_file' = <<>>
    /\ first_lines' = <<>>
    /\ header_idx' = 0
    /\ delim' = ","
    /\ df' = EmptyTable
    /\ before' = 0
    /\ printed' = <<>>
    /\ m_calc' = <<>>
    /\ residuals' = <<>>
    /\ metrics' = NoMetrics
    /\ written' = {}
    /\ error' = NoError
    /\ UNCHANGED <<dir, content, out_dir>>

----------------------------------------------------------------------------
(* Initial states and specifications                                       *)

\* sequences over S of length at most n
BSeq(S, n) == UNION {[1..k -> S] : k \in 0..n}

N_a_csv == <<"a",".","c","s","v">>
N_b_csv == <<"b",".","c","s","v">>
N_B_csv == <<"B",".","c","s","v">>
N_z_csv == <<"z",".","c","s","v">>
N_notes_txt == <<"n","o","t","e","s",".","t","x","t">>
N_a_csv_bak == <<"a",".","c","s","v",".","b","a","k">>
N_run1 == <<"r","u","n","1">>
N_Run2 == <<"R","u","n","2">>

\* a directory holding one data file
GoodDir == [exists |-> TRUE, top |-> {N_a_csv, N_notes_txt}, sub |-> {}]

\* a well-formed file: one preamble line, the header, SampleLines valid rows
GoodContent ==
    [pre |-> <<L_pre>>, hdr |-> H_full, sep |-> ",", body |-> <<R_exact>>,
     fill |-> R_exact, n |-> SampleLines + 2]

EmptyOut == [dirs |-> FALSE, files |-> {}, metrics_json |-> NoMetrics]

\* nothing has run yet
Fresh ==
    /\ run = 1
    /\ IdleLocals
    /\ out_dir = EmptyOut
    /\ prev_metrics = NoMetrics

\* every directory over a small set of entries
AllDirs ==
    [exists : BOOLEAN,
     top : SUBSET {N_a_csv, N_b_csv, N_B_csv, N_notes_txt, N_a_csv_bak},
     sub : SUBSET ({N_run1, N_Run2} \X {N_a_csv, N_z_csv, N_notes_txt})]

\* the directories the whole pipeline is run on
SomeDirs ==
    {d \in AllDirs : /\ Cardinality(d.top) <= 1
                     /\ Cardinality(d.sub) <= 1
                     /\ (~d.exists => d.top = {} /\ d.sub = {})}

MaxBody == 2

RowPool == {R_exact, R_off, R_clamp, R_text, R_inf, R_nan, R_short}

\* files that differ in their data rows
BodyContents ==
    {[pre |-> <<L_pre>>, hdr |-> H_full, sep |-> ",", body |-> b, fill |-> f, n |-> n] :
        b \in BSeq(RowPool, MaxBody), f \in {BlankRow, R_exact},
        n \in {MaxBody + 2, SampleLines - 1, SampleLines, SampleLines + 1}}

\* files that differ in their preamble, header and delimiter
HeaderContents ==
    {[pre |-> p, hdr |-> h, sep |-> d, body |-> <<R_exact, R_extra, R_long, R_text>>,
      fill |-> f,
      n |-> SampleLines] :
        p \in {<<>>, <<L_pre, L_pre>>, <<L_tie>>},
        h \in {H_full, H_nopz2, H_spaced, H_other},
        d \in CandidateSet,
        f \in {BlankRow, R_exact}}

\* a file of empty lines only
BlankContent ==
    [pre |-> <<>>, hdr |-> BlankRow, sep |-> ",", body |-> <<>>, fill |-> BlankRow,
     n |-> SampleLines]

Init ==
    /\ pc = "main"
    /\ Fresh
    /\ \/ dir \in SomeDirs /\ content = GoodContent
       \/ dir = GoodDir /\ content \in BodyContents \cup HeaderContents \cup {BlankContent}

Next ==
    \/ Locate
    \/ ReadSample
    \/ Sniff
    \/ Parse
    \/ CheckColumns
    \/ Coerce
    \/ Reconstruct
    \/ PlotSpectrum
    \/ PlotSpectrumLog
    \/ PlotResiduals
    \/ WriteMetrics
    \/ WriteReport
    \/ RunAgain

Spec == Init /\ [][Next]_vars

(* find_csv_file on every directory *)
InitFind ==
    /\ pc = "main"
    /\ Fresh
    /\ dir \in AllDirs
    /\ content = GoodContent

SpecFind == InitFind /\ [][Locate]_vars

(* the format sniffer on samples of raw lines *)
MaxHead == 2

LinePool == {L_hdr, L_five, L_four, L_pre, L_num, L_tab, L_tie, L_empty}

\* k copies of a line
Repeat(ln, k) == [i \in 1..k |-> ln]

\* samples: a few lines, then filler lines up to the end of the sniffing
\* window, then at most one more line
Samples ==
    {h \o Repeat(f, k) \o t :
        h \in BSeq(LinePool, MaxHead), f \in {L_empty, L_num},
        k \in {0, SniffWindow - 1, SniffWindow}, t \in BSeq(LinePool, 1)}

InitSniff ==
    /\ pc = "sniff"
    /\ run = 1
    /\ dir = GoodDir
    /\ content = GoodContent
    /\ csv_file = <<N_a_csv>>
    /\ first_lines \in Samples
    /\ header_idx = 0
    /\ delim = ","
    /\ df = EmptyTable
    /\ before = 0
    /\ printed = <<>>
    /\ m_calc = <<>>
    /\ residuals = <<>>
    /\ metrics = NoMetrics
    /\ written = {}
    /\ error = NoError
    /\ out_dir = EmptyOut
    /\ prev_metrics = NoMetrics

SpecSniff == InitSniff /\ [][Sniff]_vars

(* invariant_mass on every coerced row over a small range of values *)
MaxComp == 1

BigP == 10

CompVals == {Fin(v) : v \in (0 - MaxComp)..MaxComp}

\* one coerced row: the nine required columns
MassRows ==
    {<<E1, px1, py1, pz1, E2, px2, py2, pz2, Fin(0)>> :
        E1 \in CompVals \cup {PInf}, E2 \in CompVals \cup {PInf},
        px1 \in CompVals \cup {PInf, Fin(BigP)}, px2 \in CompVals \cup {PInf, Fin(BigP)},
        py1 \in CompVals, pz1 \in CompVals,
        py2 \in {Fin(0), Fin(1)}, pz2 \in {Fin(0), Fin(1)}}

InitMass ==
    /\ pc = "reconstruct"
    /\ run = 1
    /\ dir = GoodDir
    /\ content = GoodContent
    /\ csv_file = <<N_a_csv>>
    /\ first_lines = <<>>
    /\ header_idx = 0
    /\ delim = ","
    /\ \E r \in MassRows : df = [err |-> "none", columns |-> required_cols, rows |-> <<r>>]
    /\ before = 1
    /\ printed = <<>>
    /\ m_calc = <<>>
    /\ residuals = <<>>
    /\ metrics = NoMetrics
    /\ written = {}
    /\ error = NoError
    /\ out_dir = EmptyOut
    /\ prev_metrics = NoMetrics

SpecMass == InitMass /\ [][Reconstruct]_vars

----------------------------------------------------------------------------
(* Properties                                                              *)

\* value of required column number j (in the order of required_cols) in row r
Req(r, j) == df.rows[r][ColIndex(df, required_cols[j])]

\* the Minkowski norm of row r, written out from the four-vector sums
NormOf(r) ==
    XSub(XSub(XSub(XSq(XAdd(Req(r, 1), Req(r, 5))), XSq(XAdd(Req(r, 2), Req(r, 6)))),
              XSq(XAdd(Req(r, 3), Req(r, 7)))),
         XSq(XAdd(Req(r, 4), Req(r, 8))))

\* x is the square root of the non-negative grid value n, rounded to the grid
IsRoot(x, n) == IsFin(x) /\ x.v >= 0 /\ x.v * x.v <= n /\ n < (x.v + 1) * (x.v + 1)

\* C1: for every row of the coerced table the computed mass is the square
\* root of the Minkowski norm m2 when m2 >= 0 (its square is m2, to the
\* rounding of the grid; +inf for m2 = +inf) and exactly 0 when m2 < 0.
C1_MassIsClampedRoot ==
    pc = "fig1" =>
        /\ Len(m_calc) = Len(df.rows)
        /\ \A r \in 1..Len(df.rows) :
              LET m2 == NormOf(r)
              IN  /\ (IsFin(m2) /\ m2.v >= 0) => IsRoot(m_calc[r], m2.v)
                  /\ (IsFin(m2) /\ m2.v >= 0 /\ \E q \in 0..m2.v : q * q = m2.v)
                        => m_calc[r].v * m_calc[r].v = m2.v
                  /\ m2 = PInf => m_calc[r] = PInf
                  /\ XLess(m2, Fin(0)) => m_calc[r] = Fin(0)

\* C1 witness: E1 = E2 = 1, px1 = px2 = 10, the rest 0, gives mass 0
C1_Witness ==
    /\ pc = "fig1"
    /\ df.rows[1] = <<Fin(1), Fin(BigP), Fin(0), Fin(0), Fin(1), Fin(BigP), Fin(0), Fin(0), Fin(0)>>
    /\ XLess(NormOf(1), Fin(0))
    /\ m_calc[1] = Fin(0)

\* number of required column names occurring in a line
NamesIn(ln) ==
    Cardinality({j \in 1..Len(required_cols) :
        \E a \in 1..Len(ln) : \E b \in a..Len(ln) : SubSeq(ln, a, b) = required_cols[j]})

\* line i (0-based) of the sample names at least five required columns
Strong(i) == NamesIn(first_lines[i + 1]) >= 5

\* line i (0-based) holds a candidate delimiter and a letter
Delimited(i) ==
    /\ \E a \in 1..Len(first_lines[i + 1]) : first_lines[i + 1][a] \in {",", ";", "\t", "|"}
    /\ \E a \in 1..Len(first_lines[i + 1]) : first_lines[i + 1][a] \in Letters

Indices == 0..(Len(first_lines) - 1)

\* C7: the detected header index is the first line naming at least five
\* required columns; only when no line of the sample does, the first line with
\* a candidate delimiter and a letter; otherwise 0.  Two preamble lines before
\* E1,px1,py1,pz1,E2,px2,py2,pz2,M,extra give index 2 and delimiter ','.
C7_HeaderPriority ==
    pc = "parse" =>
        /\ (\E i \in Indices : Strong(i))
              => (Strong(header_idx) /\ \A i \in 0..(header_idx - 1) : ~Strong(i))
        /\ ((\A i \in Indices : ~Strong(i)) /\ (\E i \in Indices : Delimited(i)))
              => (Delimited(header_idx) /\ \A i \in 0..(header_idx - 1) : ~Delimited(i))
        /\ (\A i \in Indices : ~Strong(i) /\ ~Delimited(i)) => header_idx = 0
        /\ first_lines = <<L_pre, L_pre, L_hdr>> => (header_idx = 2 /\ delim = ",")

\* C7 witness: the example sample, and a sample where a delimited line
\* comes before the line naming the columns, has been sniffed
C7_Witness ==
    /\ pc = "parse"
    /\ \/ first_lines = <<L_pre, L_pre, L_hdr>> /\ header_idx = 2
       \/ /\ Len(first_lines) >= 2
          /\ Delimited(0)
          /\ ~Strong(0)
          /\ Strong(1)
          /\ header_idx = 1

\* occurrences of candidate number c in the window of at most 20 lines that
\* starts at the detected header line
WindowCount(c) ==
    LET last == IF header_idx + 20 <= Len(first_lines) THEN header_idx + 20
                ELSE Len(first_lines)
    IN  IntSum([i \in 1..Len(first_lines) |->
                  IF i > header_idx /\ i <= last
                  THEN CountChar(first_lines[i], candidates[c]) ELSE 0])

\* C8: the delimiter is the candidate with the highest count in the window of
\* at most 20 lines from the header line, the earliest of ',', ';', tab, '|'
\* on a tie; with all counts zero it is the dialect inference's delimiter, or
\* ',' when that inference fails.
C8_DelimiterByCount ==
    pc = "parse" =>
        IF \E c \in 1..4 : WindowCount(c) > 0
        THEN \E c \in 1..4 :
                /\ delim = candidates[c]
                /\ \A e \in 1..4 : WindowCount(e) <= WindowCount(c)
                /\ \A e \in 1..(c - 1) : WindowCount(e) < WindowCount(c)
        ELSE LET text == sample_for_sniff(first_lines, header_idx)
             IN  delim = IF Sniffer_sniff(text) # "fail" THEN Sniffer_sniff(text) ELSE ","

\* C8 witness: a line past the window holds more ';' than the window holds
\* tabs, and the tab is returned
C8_Witness ==
    /\ pc = "parse"
    /\ first_lines = <<L_tab>> \o Repeat(L_empty, SniffWindow) \o <<L_num>>
    /\ header_idx = 0
    /\ delim = "\t"

\* the name ends in .csv
IsCsvName(n) == Len(n) >= 4 /\ <<n[Len(n) - 3], n[Len(n) - 2], n[Len(n) - 1], n[Len(n)]>> = <<".", "c", "s", "v">>

\* the matching files among the immediate entries, and one level down
TopMatches == {<<n>> : n \in {m \in dir.top : IsCsvName(m)}}
SubMatches == {p \in dir.sub : IsCsvName(p[2])}

\* p is the lexicographically first path of S
IsFirstOf(p, S) == p \in S /\ \A q \in S : q = p \/ PathLess(p, q)

\* C9: for an existing directory find_csv_file returns the first matching
\* immediate entry if there is one, else the first matching file one level
\* down, never a deeper file while an immediate entry matches; it fails only
\* when both sets are empty, with a failure other than the one for a
\* directory that does not exist.
C9_FirstMatch ==
    pc # "main" =>
        /\ (dir.exists /\ TopMatches # {})
              => (pc = "load" /\ IsFirstOf(csv_file, TopMatches))
        /\ (dir.exists /\ TopMatches = {} /\ SubMatches # {})
              => (pc = "load" /\ IsFirstOf(csv_file, SubMatches))
        /\ (dir.exists /\ TopMatches = {} /\ SubMatches = {})
              => (pc = "aborted" /\ error.type = "FileNotFoundError"
                  /\ error.what = "No CSV files found")
        /\ ~dir.exists
              => (pc = "aborted" /\ error.type = "FileNotFoundError"
                  /\ error.what = "Data directory does not exist")
        /\ pc = "aborted" => (~dir.exists \/ (TopMatches = {} /\ SubMatches = {}))

\* C9 witness: several immediate entries match, a file one level down sorts
\* before all of them, and the first immediate entry is returned
C9_Witness ==
    /\ pc = "load"
    /\ Cardinality(TopMatches) >= 2
    /\ \E p \in SubMatches : \A q \in TopMatches : PathLess(p, q)
    /\ IsFirstOf(csv_file, TopMatches)

\* the run has produced its metrics
HasMetrics == pc \in {"report", "done"}

AllFinite(a) == \A i \in 1..Len(a) : IsFin(a[i])

Validated ==
    /\ \A j \in 1..Len(required_cols) : \E k \in 1..Len(df.columns) : df.columns[k] = required_cols[j]
    /\ Len(df.rows) >= 1
    /\ \A r \in 1..Len(df.rows) : \A j \in 1..Len(required_cols) : Req(r, j).k # "nan"
    /\ before >= Len(df.rows)

\* the fatal conditions: directory absent, no candidate file, hard parse
\* failure, a required column missing, no row left after coercion
FatalCondition ==
    /\ pc = "aborted"
    /\ error.what \in {"Data directory does not exist", "No CSV files found",
                       "Failed to parse", "Missing required columns",
                       "no valid rows remained"}

\* C3: a fatal condition leaves none of the run's artifacts written; artifacts
\* are written only from a validated table; a run ends with all of its
\* artifacts written or none.
C3_AllOrNothing ==
    /\ FatalCondition => written = {}
    /\ written # {} => Validated
    /\ pc \in {"done", "aborted"} => (written = {} \/ written = Artifacts)

\* names of the required columns that are not columns of the table
AbsentNames ==
    SelectIdx(required_cols,
              {j \in 1..Len(required_cols) :
                  \A k \in 1..Len(df.columns) : df.columns[k] # required_cols[j]}, 1)

\* the table as loaded (column names trimmed, empty columns dropped), untouched
\* by the coercion
LoadedTable ==
    dropna_columns(StripColumns(read_csv(FileLines(content), delim, header_idx)))

\* the column check has been made
Checked == pc \in {"coerce", "reconstruct", "fig1", "fig2", "fig3", "metrics", "report", "done"}
              \/ (pc = "aborted" /\ error.what \in {"Missing required columns",
                                                  "no valid rows remained",
                                                  "range is not finite"})

\* C4: when a required column is absent from the loaded table's column names
\* the run fails, before any coercion, with an error listing exactly the absent
\* required names and all the column names found; when all nine are present
\* the error is not raised.
C4_MissingColumns ==
    Checked =>
        IF Len(AbsentNames) > 0
        THEN /\ pc = "aborted"
             /\ error.type = "ValueError"
             /\ error.what = "Missing required columns"
             /\ error.detail.missing = AbsentNames
             /\ error.detail.found = df.columns
             /\ df = LoadedTable
             /\ before = 0
        ELSE error.what # "Missing required columns"

\* C4 witness: a table lacking pz2 has failed with ['pz2'] listed as missing
C4_Witness ==
    /\ pc = "aborted"
    /\ error.what = "Missing required columns"
    /\ error.detail.missing = <<required_cols[8]>>
    /\ Len(error.detail.found) = 8

\* rows of the table with a number in every required column
NumericRows ==
    {r \in 1..Len(df.rows) :
        \A j \in 1..Len(required_cols) : to_numeric(Req(r, j)).k # "nan"}

\* the diagnostic reporting n dropped rows
DroppedNote(n) == [msg |-> "Dropped rows", arg |-> n]

\* the dropped-row diagnostics printed so far
DroppedNotes == {i \in 1..Len(printed) : printed[i].msg = "Dropped rows"}

\* the coercion of a table with rows_after >= 1 goes on to the reconstruction
\* with rows_after rows and prints the diagnostic of rows_before - rows_after
\* dropped rows exactly when rows were dropped
CoerceStep ==
    (pc = "coerce" /\ Cardinality(NumericRows) >= 1) =>
        /\ pc' = "reconstruct"
        /\ before' = Len(df.rows)
        /\ Len(df'.rows) = Cardinality(NumericRows)
        /\ printed' = IF Cardinality(NumericRows) < Len(df.rows)
                      THEN Append(printed, DroppedNote(Len(df.rows) - Cardinality(NumericRows)))
                      ELSE printed

\* the rows of the coerced table are kept to the end of the run
RowsKept ==
    pc \in {"reconstruct", "fig1", "fig2", "fig3", "metrics", "report"}
        => (Len(df'.rows) = Len(df.rows) /\ before' = before /\ printed' = printed)

\* the metric events is the number of rows left, rows_before less the number
\* the diagnostic reports
EventsCounted ==
    HasMetrics =>
        /\ metrics.events = Len(df.rows)
        /\ out_dir.metrics_json.events = Len(df.rows)
        /\ IF metrics.events < before
           THEN \E i \in DroppedNotes : printed[i].arg = before - metrics.events
           ELSE DroppedNotes = {}

\* once the coercion has left a row, no later step of the run halts it
RunGoesOn ==
    pc \in {"reconstruct", "fig1", "fig2", "fig3", "metrics", "report"} => pc' # "aborted"

\* the coercion step by itself: with rows_after >= 1 it goes on with
\* rows_after rows, events is the number of rows it left, and the diagnostic
\* of rows_before - rows_after dropped rows is printed if and only if
\* rows_after < rows_before
RowDropStep == [][CoerceStep /\ RowsKept]_vars /\ []EventsCounted

\* C5: with rows_after >= 1 of rows_before rows numeric in every required
\* column the run does not halt, the metric events equals rows_after, and a
\* diagnostic of rows_before - rows_after dropped rows is printed if and only
\* if rows_after < rows_before.
C5_RowDrop == [][CoerceStep /\ RowsKept /\ RunGoesOn]_vars /\ []EventsCounted

\* smaller of two numbers
Smaller(a, b) == IF a < b THEN a ELSE b

\* C6: for every file the locator returns, whatever its number of lines,
\* the sample is the first min(80, n) lines of the file, taking it does not
\* fail, and sniffing returns a header index and a candidate delimiter.
C6_SampleNeverFails ==
    (csv_file # <<>> /\ pc \notin {"main", "load"}) =>
        /\ error.type # "StopIteration"
        /\ pc = "sniff" =>
              first_lines = SubSeq(FileLines(content), 1, Smaller(80, content.n))
        /\ pc = "parse" =>
              /\ header_idx \in 0..Len(first_lines)
              /\ delim \in {",", ";", "\t", "|"}

\* C10: a later run on the same input and output directories produces the
\* metrics the previous run left in metrics.json, and leaves the file with
\* that content.
C10_SameMetrics ==
    run >= 2 =>
        /\ HasMetrics => (metrics = prev_metrics /\ out_dir.metrics_json = prev_metrics)
        /\ pc \in {"done", "aborted"} => out_dir.metrics_json = prev_metrics

\* C10 witness: the second run has finished on a table that lost rows, with
\* the first run's metrics
C10_Witness ==
    /\ run = 2
    /\ pc = "done"
    /\ metrics.events >= 1
    /\ metrics.events < before
    /\ metrics.residual_rms.v > 0
    /\ out_dir.metrics_json = prev_metrics

====
